---- MODULE Spec2Model ----
(***************************************************************************)
(* Model of the satellite pairing operators of MELODIES-MONET              *)
(* (melodies_monet/util/satellite_utilities.py) and of the part of         *)
(* analysis.pair_data (melodies_monet/driver.py) that calls them.          *)
(*                                                                         *)
(* Conventions.                                                            *)
(*  - Times are integers (ticks of the time coordinate).  Sequences are    *)
(*    1-based: model step f of the code (0-based) is f+1 here only in the  *)
(*    indexing of mtime; the loop variable f keeps the code's 0-based      *)
(*    value, so "f = 0" and "f = mod_nf-1" read as in the source.          *)
(*  - Observation indices (the x dimension) and positions inside tindex    *)
(*    are 0-based as in the code; otime[n+1] is obs_data.time[n].          *)
(*  - A blend weight is the exact rational w/Delta; it is stored as its    *)
(*    numerator w (Delta = mtime[2]-mtime[1] is the common denominator).   *)
(*  - An accumulation-buffer entry is kept as the exact linear combination *)
(*    the code builds: a set of contributions [step, pix, w] meaning       *)
(*    (w/Delta) * (field of model step `step` regridded at obs pixel       *)
(*    `pix`).  The code applies the same weights to every vertical level   *)
(*    (np.expand_dims(tfac1,axis=1) broadcasts over z), so one entry       *)
(*    stands for the whole profile of a pixel.                             *)
(***************************************************************************)
EXTENDS Integers, Sequences, FiniteSets, TLC

\* ---------------------------------------------------------------- bounds
MaxT == 8      \* times range over 0..MaxT in the no-kernel pairing
MaxTK == 4     \* times range over 0..MaxTK in the kernel pairing
MaxF == 3      \* at most MaxF model time steps
MaxN == 2      \* at most MaxN observation samples along x
MaxNz == 2     \* at most MaxNz model levels
MaxL == 4      \* at most MaxL observation pressure levels in the band computation
TicksPerDay == 3   \* model times per calendar date in the daily pairing
MaxModels == 2     \* at most MaxModels models in analysis.models
MaxNK == 3     \* at most MaxNK observation samples when the kernel pairing's loop runs alone
MaxTP == 3     \* times range over 0..MaxTP when a call is repeated on permuted samples

VARIABLES
  mtime,       \* model_data.time: strictly ascending sequence of times
  otime,       \* obs_data.time: sequence of observation times (sorted by the reader)
  varname,     \* how ozone_ppbv_varname is passed: "list" (driver: keys) or "str"
  apply_ak,    \* mod.apply_ak: which swath pairing pair_data calls
  xesmf,       \* "import xesmf" succeeds (the spatial-regrid capability)
  wrf,         \* "from wrf import interplevel" succeeds (the profile interpolation)
  xe,          \* the use made of xe.Regridder: operators built, fields regridded
  pc,          \* position in the called pairing function
  f,           \* loop variable of "for f in range(mod_nf)"
  ds,          \* space_and_time_pairing: ds[j][n], one entry per variable and pixel
  ozone_temp,  \* omps_nm_pairing_apriori: blended ozone buffer
  pressure_temp, \* omps_nm_pairing_apriori: blended mid-level pressure buffer
  sfc,         \* omps_nm_pairing_apriori: blended surface pressure buffer
  model_data,  \* the model field values read by the post-processing
  obs_data,    \* the observation fields read by the post-processing
  ozone_satp,  \* omps_nm_pairing_apriori: ozone on the observation's levels
  sfcv,        \* omps_nm_pairing_apriori: the values of sfc when the kernel is applied
  layer_dp,    \* omps_nm_pairing_apriori: dp of every level of the kernel loop
  out,         \* the paired model column per pixel
  error,       \* the exception a call ended with, "none" otherwise
  band,        \* omps_nm_pairing_apriori: the pressure bands of the observation levels
  column,      \* omps_l3_daily_o3_pairing: the model column per time step and grid point
  mod_col_obsgrid, \* omps_l3_daily_o3_pairing: the column on the observation grid
  daily_mean,  \* omps_l3_daily_o3_pairing: the returned daily means
  models,      \* analysis.models: label, apply_ak, number of time steps, mapping
  obs,         \* analysis.obs: per observation its obs_type and the state of obs.obj
  paired,      \* analysis.paired: the pairs stored, by (obs label, model label)
  mi,          \* pair_data: position of "for model_label in self.models"
  oi,          \* pair_data: position of "for obs_to_pair in mod.mapping.keys()"
  ran,         \* pair_data: per iteration the strategies called and how they ended
  dataset,     \* the xr.Dataset a swath pairing returns
  interp_in,   \* omps_nm_pairing_apriori: the profiles handed to interplevel
  first_run    \* a first call and its buffers, kept while the call is repeated

vars == <<mtime, otime, varname, apply_ak, xesmf, wrf, xe, pc, f, ds, ozone_temp,
          pressure_temp, sfc, model_data, obs_data, ozone_satp, sfcv, layer_dp, out, error,
          band, column, mod_col_obsgrid, daily_mean, models, obs, paired, mi, oi, ran,
          dataset, interp_in, first_run>>

\* the locals of the daily pairing
l3Vars == <<column, mod_col_obsgrid, daily_mean>>
\* the state of analysis.pair_data
pdVars == <<models, obs, paired, mi, oi, ran>>
\* the variables the swath pairings leave alone
others == <<band, column, mod_col_obsgrid, daily_mean, models, obs, paired, mi, oi, ran,
            first_run>>

\* ------------------------------------------------------------- helpers
Abs(x) == IF x < 0 THEN -x ELSE x

RECURSIVE AscSeqs(_, _, _)
\* strictly ascending sequences of length k over lo..hi
AscSeqs(k, lo, hi) ==
  IF k = 0 THEN {<< >>}
  ELSE UNION {{<<t>> \o s : s \in AscSeqs(k - 1, t + 1, hi)} : t \in lo..hi}

RECURSIVE SortedSeqs(_, _, _)
\* non-decreasing sequences of length k over lo..hi
SortedSeqs(k, lo, hi) ==
  IF k = 0 THEN {<< >>}
  ELSE UNION {{<<t>> \o s : s \in SortedSeqs(k - 1, t, hi)} : t \in lo..hi}

mod_nf == Len(mtime)
obs_nx == Len(otime)
Pixels == 0..(obs_nx - 1)
ModelTime(i) == mtime[i + 1]      \* model_data.time[i]
ObsTime(n) == otime[n + 1]        \* obs_data.time[n]

\* model_data.time[1]-model_data.time[0]
Delta == ModelTime(1) - ModelTime(0)

\* no time window: every observation is selected at every step
tindex_all(fi) == [i \in 1..obs_nx |-> i - 1]

\* a window of twice Delta around the model time
tindex_wide(fi) ==
  SelectSeq([i \in 1..obs_nx |-> i - 1],
            LAMBDA n : Abs(ObsTime(n) - ModelTime(fi)) <= 2 * Delta)

\* np.where(np.abs(obs_data.time - model_data.time[f]) <= Delta)[0]:
\* the selected observation indices, ascending
tindex(fi) ==
  SelectSeq([i \in 1..obs_nx |-> i - 1],
            LAMBDA n : Abs(ObsTime(n) - ModelTime(fi)) <= Delta)

\* tindex[k] with k a 0-based position
TIdx(fi, k) == tindex(fi)[k + 1]
Positions(fi) == 0..(Len(tindex(fi)) - 1)

\* every selected position taken for the full-weight assignment
t2_last_all(fi) == Positions(fi)

\* t2 of the last step: positions with obs time >= model time
t2_last(fi) == {k \in Positions(fi) : ObsTime(TIdx(fi, k)) >= ModelTime(fi)}
\* tind_2 of the last step: positions with obs time < model time, within Delta
tind_2_last(fi) ==
  {k \in Positions(fi) : /\ ObsTime(TIdx(fi, k)) < ModelTime(fi)
                         /\ Abs(ObsTime(TIdx(fi, k)) - ModelTime(fi)) <= Delta}
\* t2 of the first step: positions with obs time <= model time
t2_first(fi) == {k \in Positions(fi) : ObsTime(TIdx(fi, k)) <= ModelTime(fi)}
\* tind_2 of the first step: positions with obs time > model time, within Delta
tind_2_first(fi) ==
  {k \in Positions(fi) : /\ ObsTime(TIdx(fi, k)) > ModelTime(fi)
                         /\ Abs(ObsTime(TIdx(fi, k)) - ModelTime(fi)) <= Delta}

\* a forgotten "1 -": the weight is the distance itself
tfac1_distance(fi, n) == Abs(ModelTime(fi) - ObsTime(n))

\* tfac1 = 1 - |model_data.time[f] - obs_data.time[n]| / Delta, as a numerator
tfac1(fi, n) == Delta - Abs(ModelTime(fi) - ObsTime(n))

\* interm_var[:,k]: the field of step fi regridded at the k-th selected pixel,
\* taken with weight numerator w
Contribution(fi, k, w) == [step |-> fi, pix |-> TIdx(fi, k), w |-> w]

\* the buffer index a write for position k of tindex goes to: tindex[k], or the
\* position k itself where the code indexes the buffer by the position
WriteIndex(fi, k, byPosition) == IF byPosition THEN k ELSE TIdx(fi, k)

\* "+=" in place of "=": the full-weight value is added to what is there
AssignAt_added(buf, fi, K, byPosition) ==
  [n \in DOMAIN buf |->
     buf[n] \cup {Contribution(fi, k, Delta) :
                    k \in {kk \in K : WriteIndex(fi, kk, byPosition) = n}}]

\* buf[index(k)] = interm_var[k] for every position k of K (full weight)
AssignAt(buf, fi, K, byPosition) ==
  [n \in DOMAIN buf |->
     IF \E k \in K : WriteIndex(fi, k, byPosition) = n
     THEN {Contribution(fi, k, Delta) :
             k \in {kk \in K : WriteIndex(fi, kk, byPosition) = n}}
     ELSE buf[n]]

\* buf[index(k)] += tfac1[k] * interm_var[k] for every position k of K
AccumAt(buf, fi, K, byPosition) ==
  [n \in DOMAIN buf |->
     buf[n] \cup {Contribution(fi, k, tfac1(fi, TIdx(fi, k))) :
                    k \in {kk \in K : WriteIndex(fi, kk, byPosition) = n}}]

\* ------------------------------------------- space_and_time_pairing
pair_variables == {"dp_pa", "o3vmr"}
\* the order in which the variables are regridded: ['dp_pa', ozone_ppbv_varname]
pair_order == <<"dp_pa", "o3vmr">>

\* no operator built and no field regridded yet
NoRegrid == [built |-> << >>, applied |-> << >>]

\* the operator rebuilt for every variable of the step
RegridStep_perVariable(log, fi, vs) ==
  [built |-> log.built \o [i \in 1..Len(vs) |-> [step |-> fi, dest |-> tindex(fi)]],
   applied |-> log.applied \o
                 [i \in 1..Len(vs) |->
                    [step |-> fi, var |-> vs[i], op |-> Len(log.built) + i]]]

\* xe.Regridder(model_data.isel(time=f), obs_data[[...]].sel(x=tindex)) built
\* once (line 64), then applied to every variable of vs in turn (line 68); op
\* is the operator an application used
RegridStep(log, fi, vs) ==
  [built |-> Append(log.built, [step |-> fi, dest |-> tindex(fi)]),
   applied |-> log.applied \o
                 [i \in 1..Len(vs) |->
                    [step |-> fi, var |-> vs[i], op |-> Len(log.built) + 1]]]

\* np.zeros(...): every entry is the empty combination (value 0)
Zeros == [n \in Pixels |-> {}]

\* the two ends handled like interior steps: every selected observation
\* accumulates w(n) times the regridded value
BlendStep_noBoundary(buf, fi) == AccumAt(buf, fi, Positions(fi), FALSE)

\* the time-interpolation branch of one variable at step fi (lines 71-98)
BlendStep(buf, fi) ==
  IF fi = mod_nf - 1
  THEN AccumAt(AssignAt(buf, fi, t2_last(fi), FALSE), fi, tind_2_last(fi), FALSE)
  ELSE IF fi = 0
  THEN AccumAt(AssignAt(buf, fi, t2_first(fi), FALSE), fi, tind_2_first(fi), FALSE)
  ELSE AccumAt(buf, fi, Positions(fi), FALSE)

RECURSIVE SpaceAndTimePairing(_)
\* the buffer of one variable after the first k iterations of the loop of
\* space_and_time_pairing (lines 55-98); k = mod_nf gives what line 99 returns
SpaceAndTimePairing(k) ==
  IF k = 0 THEN Zeros
  ELSE LET prev == SpaceAndTimePairing(k - 1)
       IN IF Len(tindex(k - 1)) = 0 THEN prev ELSE BlendStep(prev, k - 1)

\* the fields of the model the column computations read, constant over the
\* levels and the horizontal grid; o3 may differ from step to step
O3Zero == [i \in 0..(MaxF + 1) |-> 0]            \* no ozone anywhere
O3Const == [i \in 0..(MaxF + 1) |-> 5]           \* 5 ppbv everywhere
O3Ramp == [i \in 0..(MaxF + 1) |-> 5 * (i + 1)]  \* growing from step to step
O3Fields == {O3Zero, O3Const, O3Ramp}
DpField == [i \in 0..(MaxF + 1) |-> 1000]        \* 1000 Pa thick layers everywhere

RECURSIVE Blend(_, _)
\* the value of a buffer entry for a field given per step, times Delta
Blend(e, field) ==
  IF e = {} THEN 0
  ELSE LET c == CHOOSE c \in e : TRUE
       IN c.w * field[c.step] + Blend(e \ {c}, field)

Unchanged_ak ==
  /\ UNCHANGED <<ozone_temp, pressure_temp, sfc, obs_data, ozone_satp, sfcv, layer_dp, interp_in>>
  /\ UNCHANGED others
Inputs == <<mtime, otime, varname, apply_ak, xesmf, wrf>>

\* omps_nm_pairing lines 106-114 and space_and_time_pairing lines 42-52:
\* a failing "import xesmf" is re-raised (lines 42-46); otherwise the list of
\* mapped names makes pair_variables = ['dp_pa', ['o3vmr']], and the dict
\* comprehension of line 52 raises TypeError (unhashable list)
NmCall ==
  /\ pc = "start" /\ ~apply_ak
  /\ IF ~xesmf
     THEN /\ pc' = "raised" /\ error' = "ImportError"
          /\ UNCHANGED <<f, ds>>
     ELSE IF varname = "list"
     THEN /\ pc' = "raised" /\ error' = "TypeError"
          /\ UNCHANGED <<f, ds>>
     ELSE /\ pc' = "loop" /\ f' = 0
          /\ ds' = [j \in pair_variables |-> Zeros]
          /\ UNCHANGED error
  /\ UNCHANGED <<model_data, out, dataset, xe>>
  /\ UNCHANGED Inputs /\ Unchanged_ak

\* line 58 with a single model time: model_data.time[1] raises IndexError
PairIndexError ==
  /\ pc = "loop" /\ ~apply_ak /\ f < mod_nf /\ mod_nf < 2
  /\ pc' = "raised" /\ error' = "IndexError"
  /\ UNCHANGED <<f, ds, model_data, out, dataset, xe>>
  /\ UNCHANGED Inputs /\ Unchanged_ak

\* lines 58-61: no observation within Delta of step f
PairSkip ==
  /\ pc = "loop" /\ ~apply_ak /\ f < mod_nf /\ mod_nf >= 2
  /\ Len(tindex(f)) = 0
  /\ f' = f + 1
  /\ UNCHANGED <<pc, ds, model_data, out, dataset, error, xe>>
  /\ UNCHANGED Inputs /\ Unchanged_ak

\* lines 58-98: one model step with selected observations, every variable
PairStep ==
  /\ pc = "loop" /\ ~apply_ak /\ f < mod_nf /\ mod_nf >= 2
  /\ Len(tindex(f)) > 0
  /\ xe' = RegridStep(xe, f, pair_order)
  /\ ds' = [j \in pair_variables |-> BlendStep(ds[j], f)]
  /\ f' = f + 1
  /\ UNCHANGED <<pc, model_data, out, dataset, error>>
  /\ UNCHANGED Inputs /\ Unchanged_ak

\* the pressure thickness left in Pa
NmColumn_inPa(nz, dp, o3, n) ==
  nz * (Blend(ds["dp_pa"][n], dp) * Blend(ds["o3vmr"][n], o3))

\* np.nansum(du_fac*(paired_ds['dp_pa']/100.)*paired_ds['o3vmr'],axis=0), in
\* units of du_fac/Delta^2: per level the blended dp (Pa to hPa) times the
\* blended ozone, summed over the nz levels
NmColumn(nz, dp, o3, n) ==
  nz * ((Blend(ds["dp_pa"][n], dp) \div 100) * Blend(ds["o3vmr"][n], o3))

\* the observation's total column and its pixels' coordinates
ObsOzoneColumn == [n \in Pixels |-> 250 + 10 * n]
ObsLongitude == [n \in Pixels |-> 20 * n - 10]
ObsLatitude == [n \in Pixels |-> 40 - 5 * n]
\* the name of the paired variable: ozone_ppbv_varname[0], the first letter of
\* a plain string and the first name of a list
VarKey == IF varname = "str" THEN "o" ELSE "o3vmr"

\* the observed column written in reverse pixel order
XrDataset_flipped(col) ==
  (VarKey :> col) @@
  [ozone_column |-> [n \in Pixels |-> ObsOzoneColumn[obs_nx - 1 - n]],
   longitude |-> ObsLongitude, latitude |-> ObsLatitude,
   time |-> [n \in Pixels |-> ObsTime(n)]]

\* xr.Dataset({name: (['x','y'], col), 'ozone_column': (['x','y'],
\* obs_data.ozone_column.values)}, coords={longitude, latitude, time}), every
\* array taken from obs_data by .values
XrDataset(col) ==
  (VarKey :> col) @@
  [ozone_column |-> ObsOzoneColumn,
   longitude |-> ObsLongitude, latitude |-> ObsLatitude,
   time |-> [n \in Pixels |-> ObsTime(n)]]

\* line 99 and omps_nm_pairing lines 117-127.  The loop reads the model fields
\* only through the regridder, so their values (the number of levels, the ozone
\* field) are bound here, where the column is evaluated.
NmReturn ==
  /\ pc = "loop" /\ f = mod_nf /\ ~apply_ak
  /\ \E nz \in 1..MaxNz, o3 \in O3Fields :
       /\ model_data' = [nz |-> nz, o3 |-> o3, dp |-> DpField]
       /\ out' = [n \in Pixels |-> NmColumn(nz, model_data'.dp, o3, n)]
  /\ dataset' = XrDataset(out')
  /\ pc' = "done"
  /\ UNCHANGED <<f, ds, error, xe>>
  /\ UNCHANGED Inputs /\ Unchanged_ak


\* ------------------------------------------- omps_nm_pairing_apriori
\* numbers that may be not-a-number
Val(v) == [nan |-> FALSE, v |-> v]
NaN == [nan |-> TRUE, v |-> 0]
NAdd(a, b) == IF a.nan \/ b.nan THEN NaN ELSE Val(a.v + b.v)
NSub(a, b) == IF a.nan \/ b.nan THEN NaN ELSE Val(a.v - b.v)
NMul(a, b) == IF a.nan \/ b.nan THEN NaN ELSE Val(a.v * b.v)
NAbs(a) == IF a.nan THEN NaN ELSE Val(Abs(a.v))

\* the surface-pressure writes of one step (lines 167, 174, 179, 185, 190):
\* sfc[t2] at the last step and sfc[tind_2] at the first step are indexed by
\* the position inside tindex, the other writes by tindex[...]
SfcStep(buf, fi) ==
  IF fi = mod_nf - 1
  THEN AccumAt(AssignAt(buf, fi, t2_last(fi), TRUE), fi, tind_2_last(fi), FALSE)
  ELSE IF fi = 0
  THEN AccumAt(AssignAt(buf, fi, t2_first(fi), FALSE), fi, tind_2_first(fi), TRUE)
  ELSE AccumAt(buf, fi, Positions(fi), FALSE)

\* the first step handled like an interior step
ProfileStep_noFirst(buf, fi) ==
  IF fi = mod_nf - 1
  THEN AccumAt(AssignAt(buf, fi, t2_last(fi), FALSE), fi, tind_2_last(fi), FALSE)
  ELSE AccumAt(buf, fi, Positions(fi), FALSE)

\* the writes of one step to ozone_temp, and likewise to pressure_temp (lines
\* 163-189): at the last step buf[:,tindex[t2],:] = ... and
\* buf[:,tindex[tind_2],:] += tfac1 * ..., at the first step the same with its
\* own t2 and tind_2, at any other step buf[:,tindex,:] += tfac1 * ...
ProfileStep(buf, fi) ==
  IF fi = mod_nf - 1
  THEN AccumAt(AssignAt(buf, fi, t2_last(fi), FALSE), fi, tind_2_last(fi), FALSE)
  ELSE IF fi = 0
  THEN AccumAt(AssignAt(buf, fi, t2_first(fi), FALSE), fi, tind_2_first(fi), FALSE)
  ELSE AccumAt(buf, fi, Positions(fi), FALSE)

Unchanged_nm == UNCHANGED ds /\ UNCHANGED others

\* the variables regridded at a step, in the order of lines 159-161
ak_order == <<"o3vmr", "pres_pa_mid", "surfpres_pa">>

\* lines 133-151: a failing "import xesmf" is re-raised (lines 135-139);
\* ozone_ppbv_varname[0] of a plain string is its first letter, and
\* model_data['o'] raises KeyError
AkCall ==
  /\ pc = "start" /\ apply_ak
  /\ IF ~xesmf
     THEN /\ pc' = "raised" /\ error' = "ImportError"
          /\ UNCHANGED <<f, ozone_temp, pressure_temp, sfc>>
     ELSE IF varname = "str"
     THEN /\ pc' = "raised" /\ error' = "KeyError"
          /\ UNCHANGED <<f, ozone_temp, pressure_temp, sfc>>
     ELSE /\ pc' = "loop" /\ f' = 0
          /\ ozone_temp' = Zeros /\ pressure_temp' = Zeros /\ sfc' = Zeros
          /\ UNCHANGED error
  /\ UNCHANGED <<model_data, obs_data, ozone_satp, sfcv, layer_dp, interp_in, out, dataset, xe>>
  /\ UNCHANGED Inputs /\ Unchanged_nm

\* line 155 with a single model time: model_data.time[1] raises IndexError
AkIndexError ==
  /\ pc = "loop" /\ apply_ak /\ f < mod_nf /\ mod_nf < 2
  /\ pc' = "raised" /\ error' = "IndexError"
  /\ UNCHANGED <<f, ozone_temp, pressure_temp, sfc>>
  /\ UNCHANGED <<model_data, obs_data, ozone_satp, sfcv, layer_dp, interp_in, out, dataset, xe>>
  /\ UNCHANGED Inputs /\ Unchanged_nm

\* lines 155-156: no observation within Delta of step f
AkSkip ==
  /\ pc = "loop" /\ apply_ak /\ f < mod_nf /\ mod_nf >= 2
  /\ Len(tindex(f)) = 0
  /\ f' = f + 1
  /\ UNCHANGED <<pc, error, ozone_temp, pressure_temp, sfc>>
  /\ UNCHANGED <<model_data, obs_data, ozone_satp, sfcv, layer_dp, interp_in, out, dataset, xe>>
  /\ UNCHANGED Inputs /\ Unchanged_nm

\* lines 155-190: one model step with selected observations
AkStep ==
  /\ pc = "loop" /\ apply_ak /\ f < mod_nf /\ mod_nf >= 2
  /\ Len(tindex(f)) > 0
  /\ ozone_temp' = ProfileStep(ozone_temp, f)
  /\ pressure_temp' = ProfileStep(pressure_temp, f)
  /\ sfc' = SfcStep(sfc, f)
  /\ xe' = RegridStep(xe, f, ak_order)
  /\ f' = f + 1
  /\ UNCHANGED <<pc, error>>
  /\ UNCHANGED <<model_data, obs_data, ozone_satp, sfcv, layer_dp, interp_in, out, dataset>>
  /\ UNCHANGED Inputs /\ Unchanged_nm

\* the model's mid-level pressure (Pa) of levels z = 0 (nearest the surface)
\* and z = 1, and its surface pressure (Pa), the same at every step and place
PresMid == <<[i \in 0..(MaxF + 1) |-> 90000], [i \in 0..(MaxF + 1) |-> 30000]>>
SurfPres == [i \in 0..(MaxF + 1) |-> 100000]
\* the observation's pressure levels (hPa), index 0 first
ObsPressures == {<<800, 500, 100>>, <<1000, 500, 100>>}

\* wrf.interplevel at observation level lev (hPa) for pixel n: the blended
\* ozone (the same on every model level) where lev lies inside the pixel's
\* blended pressure column, the missing value (nan) elsewhere.  Times Delta.
Interplevel(o3, lev, n) ==
  LET pz == {Blend(pressure_temp[n], PresMid[z]) \div 100 : z \in 1..Len(PresMid)}
  IN IF (\E a \in pz : a <= lev * Delta) /\ (\E b \in pz : lev * Delta <= b)
     THEN Val(Blend(ozone_temp[n], o3))
     ELSE NaN

\* s[::-1]
Reversed(s) == [i \in 1..Len(s) |-> s[Len(s) + 1 - i]]

\* the blended ozone and pressure profiles of pixel n over the model levels,
\* level 0 (nearest the surface) first, each value with its level
OzoneProfile(o3, n) ==
  [k \in 1..Len(PresMid) |-> [z |-> k - 1, v |-> Blend(ozone_temp[n], o3)]]
PressureProfile(n) ==
  [k \in 1..Len(PresMid) |-> [z |-> k - 1, v |-> Blend(pressure_temp[n], PresMid[k])]]

\* line 196: interplevel(ozone_temp[::-1], pressure_temp[::-1]/100., ...)
InterpArgs(o3, n) ==
  [field3d |-> Reversed(OzoneProfile(o3, n)),
   vert |-> [k \in 1..Len(PresMid) |->
               [z |-> Reversed(PressureProfile(n))[k].z,
                v |-> Reversed(PressureProfile(n))[k].v \div 100]]]

\* the missing values left as they are
NanToZero_kept(a) == a

\* ozone_satp[np.isnan(ozone_satp)] = 0
NanToZero(a) == IF a.nan THEN Val(0) ELSE a

\* line 192 after the time loop: a failing "from wrf import interplevel" raises
AkImportError ==
  /\ pc = "loop" /\ apply_ak /\ f = mod_nf /\ ~wrf
  /\ pc' = "raised" /\ error' = "ImportError"
  /\ UNCHANGED <<f, ozone_temp, pressure_temp, sfc>>
  /\ UNCHANGED <<model_data, obs_data, ozone_satp, sfcv, layer_dp, interp_in, out, dataset, xe>>
  /\ UNCHANGED Inputs /\ Unchanged_nm

\* lines 191-199.  The model fields and the observation's pressure levels are
\* bound here, where their values are first used.
AkResample ==
  /\ pc = "loop" /\ apply_ak /\ f = mod_nf /\ wrf
  /\ \E o3 \in {O3Const, O3Ramp}, p \in ObsPressures :
       /\ model_data' = [o3 |-> o3, pres_pa_mid |-> PresMid, surfpres_pa |-> SurfPres]
       /\ obs_data' = [pressure |-> p]
       /\ interp_in' = [n \in Pixels |-> InterpArgs(o3, n)]
       /\ ozone_satp' = [i \in 0..(Len(p) - 1) |->
                           [n \in Pixels |-> NanToZero(Interplevel(o3, p[i + 1], n))]]
  /\ pc' = "kernel"
  /\ UNCHANGED <<f, error, ozone_temp, pressure_temp, sfc, sfcv, layer_dp, out, dataset, xe>>
  /\ UNCHANGED Inputs /\ Unchanged_nm

\* line 207 left out: the neighbour below the last level wraps to p[0]
Band_wrapped(p, i) ==
  LET L == Len(p)
      P(x) == p[x + 1]
      shift_down(x) == IF x = L - 1 THEN P(0) ELSE P(x + 1)
      shift_up(x) == IF x = 0 THEN P(L - 1) ELSE P(x - 1)
  IN IF i = L - 1 THEN (shift_up(i) - P(i)) \div 2 + (P(i) - shift_down(i))
     ELSE IF i = 0 THEN (P(i) - shift_down(i)) \div 2
     ELSE (shift_up(i) - P(i)) \div 2 + (P(i) - shift_down(i)) \div 2

\* lines 205-214: the pressure bands of the observation levels p (0-based P)
Band(p, i) ==
  LET L == Len(p)
      P(x) == p[x + 1]
      shift_down(x) == IF x = L - 1 THEN 0 ELSE P(x + 1)        \* np.roll(p,-1), last = 0
      shift_up(x) == IF x = 0 THEN P(L - 1) ELSE P(x - 1)       \* np.roll(p,1)
  IN IF i = L - 1 THEN (shift_up(i) - P(i)) \div 2 + (P(i) - shift_down(i))
     ELSE IF i = 0 THEN (P(i) - shift_down(i)) \div 2
     ELSE (shift_up(i) - P(i)) \div 2 + (P(i) - shift_down(i)) \div 2

\* sfc[sfc == 0] = np.nan (line 220), the values in Pa times Delta
SfcValue(n, sfp) ==
  IF Blend(sfc[n], sfp) = 0 THEN NaN ELSE Val(Blend(sfc[n], sfp))

\* the surface term added at the last level instead of level 0
LayerDp_atLast(p, i, n, sfp) ==
  IF i # Len(p) - 1 THEN Val(Band(p, i) * Delta)
  ELSE LET s == SfcValue(n, sfp)
       IN NAdd(NAbs(NSub(IF s.nan THEN NaN ELSE Val(s.v \div 100), Val(p[i + 1] * Delta))),
               Val(Band(p, i) * Delta))

\* dp of level i at pixel n (lines 217-221), hPa times Delta
LayerDp(p, i, n, sfp) ==
  IF i # 0 THEN Val(Band(p, i) * Delta)
  ELSE LET s == SfcValue(n, sfp)
       IN NAdd(NAbs(NSub(IF s.nan THEN NaN ELSE Val(s.v \div 100), Val(p[1] * Delta))),
               Val(Band(p, i) * Delta))

\* add = du_fac*dp*ozone_satp[i] (line 223), in units of du_fac/Delta^2
LayerAdd(p, i, n, sfp) == NMul(LayerDp(p, i, n, sfp), ozone_satp[i][n])

\* a column value: ap + du * du_fac/Delta^2, or not-a-number
Col(a, d) == [nan |-> FALSE, ap |-> a, du |-> d]
ColNaN == [nan |-> TRUE, ap |-> 0, du |-> 0]

RECURSIVE KernelSum_addUnweighted(_, _, _, _, _, _)
\* the model term not weighted by the efficiency: oz + ap*(1-eff) + add
KernelSum_addUnweighted(p, i, n, sfp, eff, ap) ==
  IF i = 0 THEN Col(0, 0)
  ELSE LET prev == KernelSum_addUnweighted(p, i - 1, n, sfp, eff, ap)
           add == LayerAdd(p, i - 1, n, sfp)
       IN IF prev.nan \/ add.nan THEN ColNaN
          ELSE Col(prev.ap + ap[n][i] * (1 - eff[n][i]), prev.du + add.v)

RECURSIVE KernelSum_apUnweighted(_, _, _, _, _, _)
\* the apriori term not weighted by 1-eff: oz + ap + eff*add
KernelSum_apUnweighted(p, i, n, sfp, eff, ap) ==
  IF i = 0 THEN Col(0, 0)
  ELSE LET prev == KernelSum_apUnweighted(p, i - 1, n, sfp, eff, ap)
           add == NMul(Val(eff[n][i]), LayerAdd(p, i - 1, n, sfp))
       IN IF prev.nan \/ add.nan THEN ColNaN
          ELSE Col(prev.ap + ap[n][i], prev.du + add.v)

RECURSIVE KernelSum(_, _, _, _, _, _)
\* oz after levels 0..i-1 of the loop of lines 215-226 at pixel n:
\* oz = oz + ap*(1-eff) + eff*add
KernelSum(p, i, n, sfp, eff, ap) ==
  IF i = 0 THEN Col(0, 0)
  ELSE LET prev == KernelSum(p, i - 1, n, sfp, eff, ap)
           add == NMul(Val(eff[n][i]), LayerAdd(p, i - 1, n, sfp))
       IN IF prev.nan \/ add.nan THEN ColNaN
          ELSE Col(prev.ap + ap[n][i] * (1 - eff[n][i]), prev.du + add.v)

\* layer efficiencies of a pixel over the three levels, and how a choice e0
\* deals them to the pixels
EffProfiles == <<<<0, 0, 0>>, <<1, 1, 1>>, <<1, 0, 1>>>>
EffOf(e0) == [n \in Pixels |-> EffProfiles[((e0 + n) % 3) + 1]]
\* apriori profiles: a * (n + level)
ApOf(a) == [n \in Pixels |-> [i \in 1..3 |-> a * (n + i)]]

\* lines 200-236.  The observation's layer efficiency and apriori profile are
\* bound here, where they are read.
AkApply ==
  /\ pc = "kernel"
  /\ \E e0 \in 0..2, a \in 1..2 :
       /\ obs_data' = [pressure |-> obs_data.pressure,
                       layer_efficiency |-> EffOf(e0), apriori |-> ApOf(a)]
       /\ out' = [n \in Pixels |->
                    KernelSum(obs_data.pressure, Len(obs_data.pressure), n,
                              model_data.surfpres_pa, EffOf(e0), ApOf(a))]
  /\ sfcv' = [n \in Pixels |-> SfcValue(n, model_data.surfpres_pa)]
  /\ layer_dp' = [i \in 0..(Len(obs_data.pressure) - 1) |->
                    [n \in Pixels |->
                       LayerDp(obs_data.pressure, i, n, model_data.surfpres_pa)]]
  /\ dataset' = XrDataset(out')
  /\ pc' = "done"
  /\ UNCHANGED <<f, error, ozone_temp, pressure_temp, sfc, model_data, ozone_satp, xe,
                 interp_in>>
  /\ UNCHANGED Inputs /\ Unchanged_nm

\* ------------------------------------------------------- specification
\* the daily pairing is not in progress
L3Idle == column = << >> /\ mod_col_obsgrid = << >> /\ daily_mean = << >>
\* pair_data is not in progress
PdIdle ==
  /\ models = << >> /\ obs = << >> /\ paired = << >>
  /\ mi = 0 /\ oi = 0 /\ ran = << >>
\* nothing but a swath pairing is in progress
OthersIdle == band = << >> /\ L3Idle /\ PdIdle /\ first_run = << >>

InitInputs(hi) ==
  /\ OthersIdle
  /\ mtime \in UNION {AscSeqs(k, 0, hi) : k \in 1..MaxF}
  /\ otime \in UNION {SortedSeqs(k, 0, hi) : k \in 1..MaxN}
  /\ varname \in {"list", "str"}
  /\ xesmf \in BOOLEAN
  /\ xe = NoRegrid
  /\ pc = "start" /\ f = 0 /\ error = "none"
  /\ ds = << >> /\ ozone_temp = << >> /\ pressure_temp = << >> /\ sfc = << >>
  /\ ozone_satp = << >> /\ sfcv = << >> /\ layer_dp = << >> /\ interp_in = << >>
  /\ model_data = << >> /\ obs_data = << >> /\ out = << >> /\ dataset = << >>

Init == InitInputs(MaxT) /\ apply_ak = FALSE /\ wrf = TRUE

Next == NmCall \/ PairIndexError \/ PairSkip \/ PairStep \/ NmReturn

Spec == Init /\ [][Next]_vars

InitAK == InitInputs(MaxTK) /\ apply_ak = TRUE /\ wrf \in BOOLEAN

NextAK ==
  AkCall \/ AkIndexError \/ AkSkip \/ AkStep \/ AkImportError \/ AkResample \/ AkApply

SpecAK == InitAK /\ [][NextAK]_vars

\* ------------------------------------- the pressure bands, taken alone
\* pressure levels (hPa) an observation may carry
PLevels == {100, 300, 500, 1000}

RECURSIVE SeqsOver(_, _)
\* the sequences of length k over the set S
SeqsOver(k, S) ==
  IF k = 0 THEN {<< >>}
  ELSE UNION {{<<x>> \o t : t \in SeqsOver(k - 1, S)} : x \in S}

\* the zero of line 207 written through to the observation's own array
PressureAfterBand_inPlace(p) == [p EXCEPT ![Len(p)] = 0]

\* obs_data.pressure after lines 205-214: np.roll returns new arrays, so the
\* assignment shift_down[-1] = 0 does not reach the observation's array
PressureAfterBand(p) == p

\* lines 205-214 on the pressure levels of an observation
BandCompute ==
  /\ pc = "band"
  /\ band' = [i \in 0..(Len(obs_data.pressure) - 1) |-> Band(obs_data.pressure, i)]
  /\ obs_data' = [pressure |-> PressureAfterBand(obs_data.pressure)]
  /\ pc' = "banded"
  /\ UNCHANGED <<mtime, otime, varname, apply_ak, xesmf, wrf, xe, f, ds, ozone_temp,
                 pressure_temp, sfc, model_data, ozone_satp, sfcv, layer_dp, interp_in,
                 out, dataset, error,
                 first_run>>
  /\ UNCHANGED l3Vars /\ UNCHANGED pdVars

InitBand ==
  /\ obs_data \in {[pressure |-> p] : p \in UNION {SeqsOver(k, PLevels) : k \in 1..MaxL}}
  /\ band = << >> /\ L3Idle /\ PdIdle /\ first_run = << >>
  /\ pc = "band" /\ f = 0 /\ error = "none"
  /\ mtime = <<0, 1>> /\ otime = <<0>> /\ varname = "list" /\ apply_ak = TRUE
  /\ xesmf = TRUE /\ wrf = TRUE /\ xe = NoRegrid
  /\ ds = << >> /\ ozone_temp = << >> /\ pressure_temp = << >> /\ sfc = << >>
  /\ ozone_satp = << >> /\ sfcv = << >> /\ layer_dp = << >> /\ interp_in = << >>
  /\ model_data = << >> /\ out = << >> /\ dataset = << >>

NextBand == BandCompute

SpecBand == InitBand /\ [][NextBand]_vars

\* --------------------------------------------- omps_l3_daily_o3_pairing
\* the model's horizontal grid (two points) and the observation's grid (two
\* cells): cell 0 lies on model point 0, cell 1 midway between the two points
ModelGrid == {0, 1}
ObsGrid == {0, 1}

\* the model's ozone (ppbv) at step i, level z, grid point g: a field that may
\* vary with each of them, given by three coefficients
L3Fields == {<<0, 0, 0>>, <<5, 0, 0>>, <<5, 2, 1>>, <<1, 3, 4>>}
O3At(fld, i, z, g) == fld[1] * (i + 1) + fld[2] * z + fld[3] * g
\* the model's layer thickness (Pa) per level, index 0 nearest the surface
DpProfiles == {<<1000, 1000, 1000>>, <<2000, 1000, 500>>}

RECURSIVE LevelSum(_, _, _, _, _)
\* (du_fac*(dp_pa/100.)*o3).sum('z') over levels 0..nz-1, in units of du_fac
LevelSum(dp, fld, nz, i, g) ==
  IF nz = 0 THEN 0
  ELSE (dp[nz] \div 100) * O3At(fld, i, nz - 1, g) + LevelSum(dp, fld, nz - 1, i, g)

\* a column below zero replaced by zero
L3Column_clipped(dp, fld, nz, i, g) ==
  IF LevelSum(dp, fld, nz, i, g) < 0 THEN 0 ELSE LevelSum(dp, fld, nz, i, g)

\* line 22: the column of step i at grid point g
L3Column(dp, fld, nz, i, g) == LevelSum(dp, fld, nz, i, g)

\* the bilinear operator applied to a field on the model grid, at observation
\* cell c, in halves
Bilinear(fld2d, c) == IF c = 0 THEN 2 * fld2d[0] ELSE fld2d[0] + fld2d[1]

\* the calendar date of a model time (time.date)
DateOf(t) == t \div TicksPerDay

RECURSIVE DailyMeans_lastOfDay(_, _)
\* no averaging: the last step of a date stands for the date
DailyMeans_lastOfDay(vals, k) ==
  IF k = 0 THEN << >>
  ELSE LET prev == DailyMeans_lastOfDay(vals, k - 1)
           d == DateOf(mtime[k])
       IN [x \in DOMAIN prev \cup {d} |->
             IF x = d THEN [c \in ObsGrid |-> [sum |-> vals[k - 1][c], n |-> 1]]
             ELSE prev[x]]

RECURSIVE DailyMeans(_, _)
\* groupby('time.date').mean() over the first k steps: per date and cell the
\* sum of the values of the steps of that date and their number
DailyMeans(vals, k) ==
  IF k = 0 THEN << >>
  ELSE LET prev == DailyMeans(vals, k - 1)
           d == DateOf(mtime[k])
       IN [x \in DOMAIN prev \cup {d} |->
             IF x = d
             THEN [c \in ObsGrid |->
                     IF d \in DOMAIN prev
                     THEN [sum |-> prev[d][c].sum + vals[k - 1][c], n |-> prev[d][c].n + 1]
                     ELSE [sum |-> vals[k - 1][c], n |-> 1]]
             ELSE prev[x]]

L3Frame ==
  /\ UNCHANGED <<otime, varname, apply_ak, xesmf, wrf, f, ds, ozone_temp, pressure_temp,
                 sfc, obs_data, ozone_satp, sfcv, layer_dp, interp_in, out, dataset, band,
                 mtime, model_data, first_run>>
  /\ UNCHANGED pdVars

\* lines 13-17: a failing "import xesmf" is re-raised
L3Call ==
  /\ pc = "l3_start"
  /\ IF ~xesmf THEN pc' = "raised" /\ error' = "ImportError"
     ELSE pc' = "l3_column" /\ UNCHANGED error
  /\ UNCHANGED <<xe, column, mod_col_obsgrid, daily_mean>>
  /\ L3Frame

\* lines 19-22: the column of every model time step and grid point
L3Integrate ==
  /\ pc = "l3_column"
  /\ column' = [i \in 0..(mod_nf - 1) |->
                  [g \in ModelGrid |->
                     L3Column(model_data.dp, model_data.o3, model_data.nz, i, g)]]
  /\ pc' = "l3_regrid"
  /\ UNCHANGED <<xe, mod_col_obsgrid, daily_mean, error>>
  /\ L3Frame

\* lines 24-26: one operator, applied once to the column of all time steps
L3Regrid ==
  /\ pc = "l3_regrid"
  /\ xe' = [built |-> Append(xe.built, [step |-> "all", dest |-> ObsGrid]),
            applied |-> Append(xe.applied,
                               [step |-> "all", var |-> "column", op |-> Len(xe.built) + 1])]
  /\ mod_col_obsgrid' = [i \in 0..(mod_nf - 1) |->
                           [c \in ObsGrid |-> Bilinear(column[i], c)]]
  /\ pc' = "l3_group"
  /\ UNCHANGED <<column, daily_mean, error>>
  /\ L3Frame

\* lines 27-32: the daily means, returned
L3DailyMean ==
  /\ pc = "l3_group"
  /\ daily_mean' = DailyMeans(mod_col_obsgrid, mod_nf)
  /\ pc' = "done"
  /\ UNCHANGED <<xe, column, mod_col_obsgrid, error>>
  /\ L3Frame

InitL3 ==
  /\ mtime \in UNION {AscSeqs(k, 0, MaxT) : k \in 1..MaxF}
  /\ model_data \in {[nz |-> nz, dp |-> dp, o3 |-> fld] :
                       nz \in 1..MaxNz, dp \in DpProfiles, fld \in L3Fields}
  /\ xesmf \in BOOLEAN
  /\ xe = NoRegrid /\ L3Idle /\ band = << >> /\ PdIdle /\ first_run = << >>
  /\ pc = "l3_start" /\ f = 0 /\ error = "none"
  /\ otime = <<0>> /\ varname = "str" /\ apply_ak = FALSE /\ wrf = TRUE
  /\ ds = << >> /\ ozone_temp = << >> /\ pressure_temp = << >> /\ sfc = << >>
  /\ ozone_satp = << >> /\ sfcv = << >> /\ layer_dp = << >> /\ interp_in = << >>
  /\ obs_data = << >> /\ out = << >> /\ dataset = << >>

NextL3 == L3Call \/ L3Integrate \/ L3Regrid \/ L3DailyMean

SpecL3 == InitL3 /\ [][NextL3]_vars

\* ------------------------------------------------ analysis.pair_data
\* the observations of the analysis, by label
ObsLabels == {"omps_nm", "omps_l3"}
ObsTypes == {"sat_swath_clm", "sat_grid_clm"}
\* mod.mapping.keys(): the observations a model is paired with, in order
Mappings == {<<"omps_nm">>, <<"omps_l3">>, <<"omps_nm", "omps_l3">>,
             <<"omps_l3", "omps_nm">>}
ModelLabels == [i \in 1..(MaxModels + 1) |-> <<"model", i>>]

\* the model and the observation of the current iteration
Mod == models[mi]
ObsName == models[mi].mapping[oi]
\* label = '{}_{}'.format(p.obs, p.model)
PairLabel(o, m) == <<o, m>>

\* how omps_nm_pairing_apriori(model_obj, obs.obj, keys) ends for a model of nf
\* time steps: model_data.time[1] at line 155 needs two of them
KernelOutcome(nf) == IF nf < 2 THEN "IndexError" ELSE "ok"
\* how omps_nm_pairing(model_obj, obs.obj, keys) ends: keys is a list, and line
\* 52 of space_and_time_pairing raises on the unhashable ['dp_pa', keys] entry
NoKernelOutcome == "TypeError"
\* how the daily pairing and the assignment of its result at driver.py line 943
\* end: the (time, x, y) array must have the shape of the observation's
GridOutcome(o) == IF o.same_days THEN "ok" ELSE "ValueError"

\* the entry written before the pairing is called
PairedAfter_early(prs, key, p, outcome) ==
  [k \in DOMAIN prs \cup {key} |-> IF k = key THEN p ELSE prs[k]]

\* self.paired[label] = p, reached only when the pairing returned
PairedAfter(prs, key, p, outcome) ==
  IF outcome = "ok"
  THEN [k \in DOMAIN prs \cup {key} |-> IF k = key THEN p ELSE prs[k]]
  ELSE prs

\* the end of one iteration: the exception leaves pair_data, or the loops go on
\* with the next observation of the mapping, then the next model
PdAdvance(outcome) ==
  IF outcome # "ok"
  THEN pc' = "raised" /\ error' = outcome /\ UNCHANGED <<mi, oi>>
  ELSE /\ UNCHANGED error
       /\ IF oi < Len(Mod.mapping) THEN oi' = oi + 1 /\ UNCHANGED <<mi, pc>>
          ELSE IF mi < Len(models) THEN mi' = mi + 1 /\ oi' = 1 /\ UNCHANGED pc
          ELSE pc' = "pd_done" /\ UNCHANGED <<mi, oi>>

PdFrame ==
  /\ UNCHANGED <<mtime, otime, varname, apply_ak, xesmf, wrf, xe, f, ds, ozone_temp,
                 pressure_temp, sfc, model_data, obs_data, ozone_satp, sfcv, layer_dp,
                 interp_in, out, dataset, band, first_run>>
  /\ UNCHANGED l3Vars /\ UNCHANGED models

\* what one iteration leaves: the log entry, the pair stored, the loop position
PdIteration(strategies, outcome) ==
  /\ ran' = Append(ran, [model |-> Mod.label, obs |-> ObsName,
                         strategies |-> strategies, outcome |-> outcome])
  /\ paired' = PairedAfter(paired, PairLabel(ObsName, Mod.label),
                           [type |-> obs[ObsName].obs_type, obs |-> ObsName,
                            model |-> Mod.label, obj |-> strategies],
                           outcome)
  /\ PdAdvance(outcome)

\* driver.py lines 889-915: an omps_nm swath observation.  obs.obj is replaced
\* by itself with 'time' swapped for 'x'; on an object already swapped by an
\* earlier pairing, swap_dims raises ValueError or changes nothing, depending
\* on the xarray release
PdSwath ==
  /\ pc = "pd"
  /\ obs[ObsName].obs_type = "sat_swath_clm" /\ ObsName = "omps_nm"
  /\ \E swapRaises \in BOOLEAN :
       IF obs[ObsName].dim # "time" /\ swapRaises
       THEN /\ UNCHANGED obs
            /\ PdIteration({}, "ValueError")
       ELSE /\ obs' = [obs EXCEPT ![ObsName].dim = "x"]
            /\ IF Mod.apply_ak
               THEN PdIteration({"omps_nm_pairing_apriori"}, KernelOutcome(Mod.nf))
               ELSE PdIteration({"omps_nm_pairing"}, NoKernelOutcome)
  /\ PdFrame

\* driver.py lines 935-952: an omps_l3 grid observation, paired on a copy of
\* the observation
PdGrid ==
  /\ pc = "pd"
  /\ obs[ObsName].obs_type = "sat_grid_clm" /\ ObsName = "omps_l3"
  /\ PdIteration({"omps_l3_daily_o3_pairing"}, GridOutcome(obs[ObsName]))
  /\ UNCHANGED obs
  /\ PdFrame

\* an "else: raise" closing the chain of label tests
PdOther_raises ==
  /\ pc = "pd"
  /\ ~(obs[ObsName].obs_type = "sat_swath_clm" /\ ObsName = "omps_nm")
  /\ ~(obs[ObsName].obs_type = "sat_grid_clm" /\ ObsName = "omps_l3")
  /\ ran' = Append(ran, [model |-> Mod.label, obs |-> ObsName,
                         strategies |-> {}, outcome |-> "ValueError"])
  /\ PdAdvance("ValueError")
  /\ UNCHANGED <<obs, paired>>
  /\ PdFrame

\* an observation no branch of lines 869-952 applies to: nothing is paired
PdOther ==
  /\ pc = "pd"
  /\ ~(obs[ObsName].obs_type = "sat_swath_clm" /\ ObsName = "omps_nm")
  /\ ~(obs[ObsName].obs_type = "sat_grid_clm" /\ ObsName = "omps_l3")
  /\ ran' = Append(ran, [model |-> Mod.label, obs |-> ObsName,
                         strategies |-> {}, outcome |-> "ok"])
  /\ PdAdvance("ok")
  /\ UNCHANGED <<obs, paired>>
  /\ PdFrame

InitPD ==
  /\ \E k \in 1..MaxModels :
       models \in {[i \in 1..k |-> [label |-> ModelLabels[i], apply_ak |-> c[i][1],
                                    nf |-> c[i][2], mapping |-> c[i][3]]] :
                     c \in [1..k -> BOOLEAN \X {1, 2} \X Mappings]}
  /\ obs \in {[l \in ObsLabels |-> [obs_type |-> t[l], dim |-> "time", same_days |-> sd]] :
                t \in [ObsLabels -> ObsTypes], sd \in BOOLEAN}
  /\ paired = << >> /\ ran = << >> /\ mi = 1 /\ oi = 1
  /\ pc = "pd" /\ error = "none" /\ f = 0
  /\ mtime = <<0, 1>> /\ otime = <<0>> /\ varname = "list" /\ apply_ak = FALSE
  /\ xesmf = TRUE /\ wrf = TRUE /\ xe = NoRegrid
  /\ ds = << >> /\ ozone_temp = << >> /\ pressure_temp = << >> /\ sfc = << >>
  /\ ozone_satp = << >> /\ sfcv = << >> /\ layer_dp = << >> /\ interp_in = << >>
  /\ model_data = << >> /\ obs_data = << >> /\ out = << >> /\ dataset = << >>
  /\ band = << >> /\ L3Idle /\ first_run = << >>

NextPD == PdSwath \/ PdGrid \/ PdOther

SpecPD == InitPD /\ [][NextPD]_vars

\* ------------------------- the two column integrations, one or the other
InitCol == (InitInputs(MaxTK) /\ apply_ak = FALSE /\ wrf = TRUE) \/ InitL3

NextCol == Next \/ NextL3

SpecCol == InitCol /\ [][NextCol]_vars

\* --------------- pair_data after the kernel pairing returned its dataset
\* "col > 0" for a column ap + du * du_fac/Delta^2 whose two parts are never
\* negative; a comparison with not-a-number is False
Positive(c) == ~c.nan /\ c.ap >= 0 /\ c.du >= 0 /\ (c.ap > 0 \/ c.du > 0)

\* the paired column alone masked, the observed column kept
Where_columnOnly(d) ==
  [o3vmr |-> [n \in Pixels |-> IF Positive(d.o3vmr[n]) THEN d.o3vmr[n] ELSE ColNaN],
   ozone_column |-> [n \in Pixels |-> Val(d.ozone_column[n])],
   longitude |-> d.longitude, latitude |-> d.latitude, time |-> d.time]

\* paired_data.where((paired_data.o3vmr > 0)): every data variable becomes
\* missing where the condition is False, the coordinates are kept
Where(d) ==
  [o3vmr |-> [n \in Pixels |-> IF Positive(d.o3vmr[n]) THEN d.o3vmr[n] ELSE ColNaN],
   ozone_column |-> [n \in Pixels |->
                       IF Positive(d.o3vmr[n]) THEN Val(d.ozone_column[n]) ELSE NaN],
   longitude |-> d.longitude, latitude |-> d.latitude, time |-> d.time]

\* driver.py lines 907-915 once omps_nm_pairing_apriori has returned: the
\* dataset is masked and stored as the pair of the observation and the model
PdStore ==
  /\ pc = "done" /\ apply_ak
  /\ paired' = (PairLabel("omps_nm", ModelLabels[1]) :>
                  [type |-> "sat_swath_clm", obs |-> "omps_nm", model |-> ModelLabels[1],
                   obj |-> Where(dataset)])
  /\ pc' = "stored"
  /\ UNCHANGED <<mtime, otime, varname, apply_ak, xesmf, wrf, xe, f, ds, ozone_temp,
                 pressure_temp, sfc, model_data, obs_data, ozone_satp, sfcv, layer_dp,
                 interp_in, out, dataset, error, band, first_run>>
  /\ UNCHANGED l3Vars /\ UNCHANGED <<models, obs, mi, oi, ran>>

NextAkPd == NextAK \/ PdStore

SpecAkPd == InitAK /\ [][NextAkPd]_vars

\* ------------------- the time loop of omps_nm_pairing_apriori, taken alone
InitAkLoop ==
  /\ OthersIdle
  /\ mtime \in UNION {AscSeqs(k, 0, MaxTK) : k \in 1..MaxF}
  /\ otime \in UNION {SortedSeqs(k, 0, MaxTK) : k \in 1..MaxNK}
  /\ varname = "list" /\ apply_ak = TRUE /\ xesmf = TRUE /\ wrf = TRUE
  /\ xe = NoRegrid
  /\ pc = "start" /\ f = 0 /\ error = "none"
  /\ ds = << >> /\ ozone_temp = << >> /\ pressure_temp = << >> /\ sfc = << >>
  /\ ozone_satp = << >> /\ sfcv = << >> /\ layer_dp = << >> /\ interp_in = << >>
  /\ model_data = << >> /\ obs_data = << >> /\ out = << >> /\ dataset = << >>

NextAkLoop == AkCall \/ AkIndexError \/ AkSkip \/ AkStep

SpecAkLoop == InitAkLoop /\ [][NextAkLoop]_vars

\* ----------------- a pairing called again on permuted observation samples
\* the orders the samples can be put in: position i holds the sample that
\* was at index p[i]
Orders(k) ==
  {p \in [1..k -> 0..(k - 1)] : \A a, b \in 1..k : p[a] = p[b] => a = b}

\* the bracketing loop has ended; the same function is called again with the
\* observation samples in another order, on fresh zero buffers
Repeat ==
  /\ pc = "loop" /\ f = mod_nf /\ first_run = << >>
  /\ \E p \in Orders(obs_nx) :
       /\ first_run' = [perm |-> p, otime |-> otime, ds |-> ds, ozone_temp |-> ozone_temp,
                        pressure_temp |-> pressure_temp, sfc |-> sfc]
       /\ otime' = [i \in 1..obs_nx |-> otime[p[i] + 1]]
  /\ f' = 0 /\ xe' = NoRegrid
  /\ IF apply_ak
     THEN /\ ozone_temp' = Zeros /\ pressure_temp' = Zeros /\ sfc' = Zeros
          /\ UNCHANGED ds
     ELSE /\ ds' = [j \in pair_variables |-> Zeros]
          /\ UNCHANGED <<ozone_temp, pressure_temp, sfc>>
  /\ UNCHANGED <<mtime, varname, apply_ak, xesmf, wrf, pc, error, model_data, obs_data,
                 ozone_satp, sfcv, layer_dp, out, dataset, interp_in, band>>
  /\ UNCHANGED l3Vars /\ UNCHANGED pdVars

\* the samples in any order: the functions do not ask for sorted times
InitPerm ==
  /\ OthersIdle
  /\ mtime \in UNION {AscSeqs(k, 0, MaxTP) : k \in 2..MaxF}
  /\ otime \in UNION {SeqsOver(k, 0..MaxTP) : k \in 1..MaxN}
  /\ apply_ak \in BOOLEAN
  /\ varname = IF apply_ak THEN "list" ELSE "str"
  /\ xesmf = TRUE /\ wrf = TRUE /\ xe = NoRegrid
  /\ pc = "start" /\ f = 0 /\ error = "none"
  /\ ds = << >> /\ ozone_temp = << >> /\ pressure_temp = << >> /\ sfc = << >>
  /\ ozone_satp = << >> /\ sfcv = << >> /\ layer_dp = << >> /\ interp_in = << >>
  /\ model_data = << >> /\ obs_data = << >> /\ out = << >> /\ dataset = << >>

NextPerm == NmCall \/ PairSkip \/ PairStep \/ AkCall \/ AkSkip \/ AkStep \/ Repeat

SpecPerm == InitPerm /\ [][NextPerm]_vars

\* ------------------------------ the two swath pairings, one or the other
InitSwath == (InitInputs(MaxTK) /\ apply_ak = FALSE /\ wrf = TRUE) \/ InitAK

NextSwath == Next \/ NextAK

SpecSwath == InitSwath /\ [][NextSwath]_vars

\* ---------------------------------------------------- claims: vocabulary
\* the model times are uniformly spaced
Uniform == \A i \in 1..(mod_nf - 1) : ModelTime(i) - ModelTime(i - 1) = Delta
\* observation n is within Delta of model step fi
Within(fi, n) == Abs(ObsTime(n) - ModelTime(fi)) <= Delta
StepsWithin(n) == {fi \in 0..(mod_nf - 1) : Within(fi, n)}
Covered(n) == StepsWithin(n) # {}
\* the bracketer of the no-kernel pairing has run over every model step
Bracketed == pc = "done" /\ mod_nf >= 2
RECURSIVE SumW(_)
\* the total weight of a buffer entry, as a numerator over Delta
SumW(e) == IF e = {} THEN 0
           ELSE LET c == CHOOSE c \in e : TRUE IN c.w + SumW(e \ {c})
\* the steps an entry holds contributions of
StepsOf(e) == {c.step : c \in e}
Full(fi, n) == [step |-> fi, pix |-> n, w |-> Delta]

\* C1: with at least two uniformly spaced model times, after the loop every
\* observation between the first and the last model time holds total weight 1,
\* and an observation within Delta of a single step holds weight 1 of that step.
C1_WeightsSumToOne ==
  (Bracketed /\ Uniform) =>
    \A j \in pair_variables : \A n \in Pixels :
      /\ (ModelTime(0) <= ObsTime(n) /\ ObsTime(n) <= ModelTime(mod_nf - 1))
            => SumW(ds[j][n]) = Delta
      /\ \A fi \in 0..(mod_nf - 1) :
            StepsWithin(n) = {fi} => ds[j][n] = {Full(fi, n)}

\* a run where one observation is blended from two steps with positive weights
\* and another lies within Delta of one step only
C1_Witness ==
  /\ Bracketed /\ Uniform
  /\ \E n \in Pixels :
       /\ ModelTime(0) < ObsTime(n) /\ ObsTime(n) < ModelTime(mod_nf - 1)
       /\ \E c1, c2 \in ds["o3vmr"][n] : c1.step # c2.step /\ c1.w > 0 /\ c2.w > 0
  /\ \E n \in Pixels : Cardinality(StepsWithin(n)) = 1

\* C2 as stated (no assumption on the spacing of the model times): an
\* observation strictly between two adjacent steps holds exactly their two
\* contributions, with weights 1-(t_o-t_m[f])/Delta and 1-(t_m[f+1]-t_o)/Delta.
BracketWeights(j, n, fi) ==
  ds[j][n] = {[step |-> fi, pix |-> n, w |-> Delta - (ObsTime(n) - ModelTime(fi))],
              [step |-> fi + 1, pix |-> n, w |-> Delta - (ModelTime(fi + 1) - ObsTime(n))]}
C2_AnySpacing ==
  Bracketed =>
    \A j \in pair_variables : \A n \in Pixels : \A fi \in 0..(mod_nf - 2) :
      (ModelTime(fi) < ObsTime(n) /\ ObsTime(n) < ModelTime(fi + 1))
         => BracketWeights(j, n, fi)

\* C2 (amended): the same with uniformly spaced model times; an observation
\* midway holds 1/2 and 1/2, and with steps 0,1,2 an observation at 0.25 (ticks
\* of a quarter: 0,4,8 and 1) holds 3/4 of step 0, 1/4 of step 1, none of step 2.
C2_BracketWeights ==
  (Bracketed /\ Uniform) =>
    \A j \in pair_variables : \A n \in Pixels :
      /\ \A fi \in 0..(mod_nf - 2) :
           (ModelTime(fi) < ObsTime(n) /\ ObsTime(n) < ModelTime(fi + 1))
             => /\ BracketWeights(j, n, fi)
                /\ (2 * (ObsTime(n) - ModelTime(fi)) = Delta
                      => \A c \in ds[j][n] : 2 * c.w = Delta)
      /\ (mtime = <<0, 4, 8>> /\ ObsTime(n) = 1)
           => ds[j][n] = {[step |-> 0, pix |-> n, w |-> 3],
                          [step |-> 1, pix |-> n, w |-> 1]}

\* the run of the 0.25 example together with an observation exactly midway
C2_Witness ==
  /\ Bracketed /\ mtime = <<0, 4, 8>>
  /\ \E n \in Pixels : ObsTime(n) = 1
  /\ \E n \in Pixels : ObsTime(n) = 6

\* C3: with a single model time step the pairing completes, and every entry is
\* either untouched or the regridded value of that step with weight 1.
C3_SingleStepRegrid ==
  (mod_nf = 1 /\ varname = "str" /\ pc \in {"done", "raised"}) =>
    /\ pc = "done"
    /\ \A j \in pair_variables : \A n \in Pixels :
         ds[j][n] = {} \/ (StepsOf(ds[j][n]) = {0} /\ SumW(ds[j][n]) > 0)

\* the weight the boundary policy gives observation n at step fi
PolicyWeight(fi, n) ==
  IF fi = mod_nf - 1 /\ ObsTime(n) >= ModelTime(fi) THEN Delta
  ELSE IF fi = 0 /\ ObsTime(n) <= ModelTime(fi) THEN Delta
  ELSE Delta - Abs(ModelTime(fi) - ObsTime(n))
\* the entry of observation n once the first k steps are processed: set to the
\* last step's value by its full-weight case, else the sum of the weighted
\* values of the processed steps that select n
PolicyEntry(n, k) ==
  IF k = mod_nf /\ Within(mod_nf - 1, n) /\ ObsTime(n) >= ModelTime(mod_nf - 1)
  THEN {Full(mod_nf - 1, n)}
  ELSE {[step |-> fi, pix |-> n, w |-> PolicyWeight(fi, n)] :
          fi \in {x \in 0..(k - 1) : Within(x, n)}}

\* C5: boundary policy.  At every point of the loop each entry is what the
\* policy prescribes: full weight 1 set at the last step for t_o >= t_m[F-1]
\* and at the first step for t_o <= t_m[0], w(n) times the regridded value
\* accumulated in every other case.
C5_BoundaryPolicy ==
  (pc \in {"loop", "done"} /\ mod_nf >= 2) =>
    \A j \in pair_variables : \A n \in Pixels : ds[j][n] = PolicyEntry(n, f)

\* a finished run with an observation before the first step, and one after the
\* last step that an earlier step had already given a contribution
C5_Witness ==
  /\ Bracketed /\ mod_nf = 3
  /\ \E n \in Pixels : ObsTime(n) < ModelTime(0) /\ Within(0, n)
  /\ \E n \in Pixels : ObsTime(n) = ModelTime(2) /\ Within(1, n)

\* C6 as stated: an observation more than Delta from every model step keeps
\* zero in every buffer, and its paired column differs from the column of a
\* covered pixel whose model column is a genuine zero.
C6_Distinguishable ==
  pc = "done" =>
    \A n \in Pixels :
      ~Covered(n) =>
        /\ \A j \in pair_variables : ds[j][n] = {}
        /\ \A m \in Pixels :
             (Covered(m) /\ model_data.o3 = O3Zero) => out[m] # out[n]

\* C6 (amended): such an observation is never selected, its entry in every
\* buffer stays zero and its paired column is 0, the very value a covered pixel
\* gets when the model column is a genuine zero.
C6_NeutralZero ==
  (pc \in {"loop", "done"} /\ mod_nf >= 2) =>
    \A n \in Pixels :
      ~Covered(n) =>
        /\ \A j \in pair_variables : ds[j][n] = {}
        /\ pc = "done" =>
             /\ out[n] = 0
             /\ \A m \in Pixels :
                  (Covered(m) /\ model_data.o3 = O3Zero) => out[m] = out[n]

\* a finished run with an uncovered pixel next to a covered one, zero ozone
C6_Witness ==
  /\ pc = "done" /\ model_data.o3 = O3Zero
  /\ \E n, m \in Pixels : ~Covered(n) /\ Covered(m) /\ ds["o3vmr"][m] # {}

\* DU_FACTOR * (1000/100) * 5.0, in the unit of out (du_fac/Delta^2)
RoundTripColumn == (1000 \div 100) * 5 * Delta * Delta

KernelBracketed == apply_ak /\ pc \in {"kernel", "done"} /\ mod_nf >= 2
Levels == 1..Len(obs_data.pressure)
EffAll(n, v) == \A i \in Levels : obs_data.layer_efficiency[n][i] = v

\* C4: after the time loop the surface-pressure entry of every observation
\* index n holds contributions of the same model steps, regridded at pixel n,
\* with the same weights as the ozone and mid-level-pressure entries of n.
C4_SurfacePressureLikeOthers ==
  KernelBracketed =>
    \A n \in Pixels :
      /\ ozone_temp[n] = pressure_temp[n]
      /\ StepsOf(sfc[n]) = StepsOf(ozone_temp[n])
      /\ SumW(sfc[n]) = SumW(ozone_temp[n])
      /\ \A c \in sfc[n] : c.pix = n

\* C8: with uniformly spaced model times, a pixel's final column is
\* not-a-number exactly when no model step covered the pixel; a covered pixel
\* keeps a valid surface pressure and a valid column.
C8_NanIffUncovered ==
  (apply_ak /\ pc = "done" /\ Uniform) =>
    \A n \in Pixels :
      /\ out[n].nan <=> ~Covered(n)
      /\ sfcv[n].nan <=> ~Covered(n)

RECURSIVE ApSum(_, _)
\* the sum of the apriori profile of pixel n over levels 1..i
ApSum(n, i) == IF i = 0 THEN 0 ELSE obs_data.apriori[n][i] + ApSum(n, i - 1)

\* C9 as stated: a pixel whose layer efficiency is 0 at every level gets the
\* sum of its apriori profile, also when its surface pressure was never covered.
C9_AprioriAlways ==
  (apply_ak /\ pc = "done") =>
    \A n \in Pixels :
      EffAll(n, 0) => out[n] = Col(ApSum(n, Len(obs_data.pressure)), 0)

\* C9 (amended): such a pixel gets the sum of its apriori profile, unchanged by
\* any model-derived value, when its accumulated surface pressure is not zero;
\* when it is zero the column is not-a-number.
C9_AprioriColumn ==
  (apply_ak /\ pc = "done") =>
    \A n \in Pixels :
      EffAll(n, 0) =>
        out[n] = IF sfcv[n].nan THEN ColNaN
                 ELSE Col(ApSum(n, Len(obs_data.pressure)), 0)

\* a pixel of efficiency 0 with a valid surface pressure and model ozone on
\* some level
C9_Witness ==
  /\ apply_ak /\ pc = "done"
  /\ \E n \in Pixels :
       /\ EffAll(n, 0) /\ ~sfcv[n].nan
       /\ \E i \in Levels : ozone_satp[i - 1][n].v > 0

\* the pure model-derived column of pixel n: the sum over the levels of
\* du_fac*dp[i]*oz[i]
ModelColumn(n) ==
  LET p == obs_data.pressure
      s == NAdd(LayerAdd(p, 0, n, model_data.surfpres_pa),
                NAdd(LayerAdd(p, 1, n, model_data.surfpres_pa),
                     LayerAdd(p, 2, n, model_data.surfpres_pa)))
  IN IF s.nan THEN ColNaN ELSE Col(0, s.v)

\* C10: a pixel whose layer efficiency is 1 at every level gets the pure
\* model-derived column, and a run that differs only in the apriori profile
\* gives the same column.
C10_NoAprioriInfluence ==
  (apply_ak /\ pc = "done") =>
    \A n \in Pixels :
      EffAll(n, 1) =>
        /\ out[n] = ModelColumn(n)
        /\ \A a \in 1..2 :
             KernelSum(obs_data.pressure, Len(obs_data.pressure), n,
                       model_data.surfpres_pa, obs_data.layer_efficiency, ApOf(a))
               = out[n]

\* a pixel of efficiency 1 with a valid, non-zero model column
C10_Witness ==
  /\ apply_ak /\ pc = "done"
  /\ \E n \in Pixels : EffAll(n, 1) /\ ~out[n].nan /\ out[n].du > 0

\* |surface_pressure/100 - p[i]| at pixel n, hPa times Delta
SurfaceTerm(n, i) ==
  NAbs(NSub(IF sfcv[n].nan THEN NaN ELSE Val(sfcv[n].v \div 100),
            Val(obs_data.pressure[i + 1] * Delta)))
\* band[i] alone, hPa times Delta
BandAlone(i) == Val(Band(obs_data.pressure, i) * Delta)

C13_NoKernelAsCalled ==
  (~apply_ak /\ varname = "list" /\ xesmf /\ mod_nf >= 2 /\ pc \in {"done", "raised"}) =>
    /\ pc = "done"
    /\ {a.var : a \in {xe.applied[i] : i \in 1..Len(xe.applied)}} \subseteq pair_variables
    /\ \A n \in Pixels : out[n] = NmColumn(model_data.nz, model_data.dp, model_data.o3, n)

\* ------------------------------------------------ claims: daily pairing
\* the distinct calendar dates of the model time coordinate
ModelDates == {mtime[k] \div TicksPerDay : k \in 1..mod_nf}
\* the model steps falling on date d
StepsOn(d) == {i \in 0..(mod_nf - 1) : ModelTime(i) \div TicksPerDay = d}
RECURSIVE SumOver(_, _)
\* the sum of the regridded columns at cell c over the steps of S
SumOver(S, c) ==
  IF S = {} THEN 0
  ELSE LET i == CHOOSE i \in S : TRUE
       IN mod_col_obsgrid[i][c] + SumOver(S \ {i}, c)

\* C14: the daily pairing holds a column for every model time step, builds
\* the regridder once and applies it once (never per step), and returns one
\* value per distinct date of the model times and cell: the mean (sum over
\* count) of the regridded columns of the steps falling on that date.
C14_DailyMeans ==
  /\ Len(xe.built) <= 1 /\ Len(xe.applied) <= 1
  /\ (pc = "done" /\ daily_mean # << >>) =>
       /\ DOMAIN column = 0..(mod_nf - 1)
       /\ \A i \in 0..(mod_nf - 1) : \A g \in ModelGrid :
            column[i][g] = LevelSum(model_data.dp, model_data.o3, model_data.nz, i, g)
       /\ Len(xe.built) = 1 /\ Len(xe.applied) = 1
       /\ DOMAIN daily_mean = ModelDates
       /\ \A d \in ModelDates : \A c \in ObsGrid :
            daily_mean[d][c] = [sum |-> SumOver(StepsOn(d), c),
                                n |-> Cardinality(StepsOn(d))]

\* three steps over two dates, two of them on the same date with different
\* regridded columns
C14_Witness ==
  /\ pc = "done" /\ mod_nf = 3 /\ Cardinality(ModelDates) = 2
  /\ \E d \in ModelDates : \E i, j \in StepsOn(d) :
       /\ i # j /\ mod_col_obsgrid[i][1] # mod_col_obsgrid[j][1]
       /\ daily_mean[d][1].n = 2

\* ------------------------------------------------ claims: pair_data
\* the model of a log entry, and the key of its pair
ModelOf(e) == CHOOSE m \in {models[i] : i \in 1..Len(models)} : m.label = e.model
KeyOf(e) == <<e.obs, e.model>>
Entries == {ran[k] : k \in 1..Len(ran)}
\* the strategy the claim assigns to an iteration, "none" where it assigns none
Selected(e) ==
  IF obs[e.obs].obs_type = "sat_swath_clm" /\ e.obs = "omps_nm"
  THEN (IF ModelOf(e).apply_ak THEN "omps_nm_pairing_apriori" ELSE "omps_nm_pairing")
  ELSE IF obs[e.obs].obs_type = "sat_grid_clm" /\ e.obs = "omps_l3"
  THEN "omps_l3_daily_o3_pairing"
  ELSE "none"

\* C15, for one model with at least two time steps and observations of
\* matching shape: every iteration on an omps_nm swath or an omps_l3 grid
\* observation runs exactly the strategy selected by the product (kernel when
\* apply_ak, no-kernel otherwise, daily for the grid product) and its result
\* is stored in paired under (obs label, model label).
C15_StrategyByProduct ==
  (pc \in {"pd", "pd_done", "raised"} /\ Len(models) = 1 /\ models[1].nf >= 2
     /\ obs["omps_l3"].same_days) =>
    \A e \in Entries :
      Selected(e) # "none" =>
        /\ e.strategies = {Selected(e)}
        /\ KeyOf(e) \in DOMAIN paired
        /\ paired[KeyOf(e)].obj = {Selected(e)}
        /\ paired[KeyOf(e)].obs = e.obs /\ paired[KeyOf(e)].model = e.model

C18_ObservationReadOnly ==
  pc \in {"pd", "pd_done", "raised"} =>
    /\ \A l \in DOMAIN obs : obs[l].dim = "time"
    /\ \A e \in Entries : e.obs = "omps_nm" => e.outcome # "ValueError"

\* --------------------------------------------- claims: capabilities, regridder
\* C16 (checked for the kernel pairing): a call that ends with the import
\* error of a missing capability has built no regrid operator, has written no
\* accumulation buffer and returns no dataset.
C16_FailsBeforeAnyStep ==
  (apply_ak /\ error = "ImportError") =>
    /\ xe = NoRegrid
    /\ \A n \in DOMAIN ozone_temp : ozone_temp[n] = {}
    /\ \A n \in DOMAIN pressure_temp : pressure_temp[n] = {}
    /\ \A n \in DOMAIN sfc : sfc[n] = {}
    /\ out = << >>

\* the builds and the applications of the regrid operator logged for step fi
BuildsOf(fi) == {k \in 1..Len(xe.built) : xe.built[k].step = fi}
AppliedOf(fi) == {k \in 1..Len(xe.applied) : xe.applied[k].step = fi}

Scalings == {-1, 0, 2, 3}

\* C20: multiplying the mixing ratio by k multiplies the column by k, in the
\* daily pairing (every step and grid point) and in the no-kernel swath pairing
\* (every pixel).
C20_ColumnLinear ==
  /\ column # << >> =>
       \A k \in Scalings : \A i \in 0..(mod_nf - 1) : \A g \in ModelGrid :
         L3Column(model_data.dp, [x \in 1..3 |-> k * model_data.o3[x]],
                  model_data.nz, i, g) = k * column[i][g]
  /\ (pc = "done" /\ out # << >>) =>
       \A k \in Scalings : \A n \in Pixels :
         NmColumn(model_data.nz, model_data.dp,
                  [i \in DOMAIN model_data.o3 |-> k * model_data.o3[i]], n) = k * out[n]

\* a daily pairing with a non-zero column that differs between the grid points
C20_Witness ==
  /\ pc = "done" /\ column # << >> /\ model_data.nz = 2
  /\ column[0][0] > 0 /\ column[0][1] # column[0][0]

\* ------------------------------------------------ claims: pressure bands
\* the bands as the claim writes them, for the 0-based levels P[0..L)
BandsAsStated ==
  LET p == obs_data.pressure
      L == Len(p)
      P(x) == p[x + 1]
  IN /\ \A i \in 1..(L - 2) :
          band[i] = (P(i - 1) - P(i)) \div 2 + (P(i) - P(i + 1)) \div 2
     /\ band[0] = (P(0) - P(1)) \div 2
     /\ band[L - 1] = (P(L - 2) - P(L - 1)) \div 2 + P(L - 1)

\* C11: for at least two pressure levels the bands are the centred difference
\* at interior levels, (p[0]-p[1])/2 at level 0 and (p[L-2]-p[L-1])/2 + p[L-1]
\* at level L-1, and the computation leaves the pressure vector unchanged.
C11_PressureBands ==
  /\ [](pc = "banded" /\ Len(obs_data.pressure) >= 2 => BandsAsStated)
  /\ [][obs_data'.pressure = obs_data.pressure]_vars

\* bands computed for four levels
C11_Witness ==
  /\ pc = "banded" /\ obs_data.pressure = <<1000, 500, 300, 100>>
  /\ band = [i \in 0..3 |-> <<250, 350, 200, 200>>[i + 1]]


\* ------------------------------------------ claims: the returned dataset
\* C21: the dataset a swath pairing returns has one cell per observation
\* pixel and carries the observation's ozone_column, longitude, latitude and
\* time with the input's values in the input's order.
C21_DatasetCarriesObservation ==
  (pc = "done" /\ dataset # << >>) =>
    /\ DOMAIN dataset[VarKey] = Pixels
    /\ dataset[VarKey] = out
    /\ \A n \in Pixels :
         /\ dataset.ozone_column[n] = ObsOzoneColumn[n]
         /\ dataset.longitude[n] = ObsLongitude[n]
         /\ dataset.latitude[n] = ObsLatitude[n]
         /\ dataset.time[n] = otime[n + 1]
\* each pairing has returned a dataset for two pixels
C21_Witness ==
  /\ pc = "done" /\ dataset # << >> /\ obs_nx = 2 /\ apply_ak
  /\ dataset.ozone_column[0] # dataset.ozone_column[1]


\* ------------------------------------------- claims: the blend weights
\* C22: every blend weight applied to a selected observation, at any step and
\* at any point of the loop, lies in [0, 1] (numerators in 0..Delta).
C22_WeightsInUnitInterval ==
  (pc \in {"loop", "done"} /\ mod_nf >= 2) =>
    \A j \in DOMAIN ds : \A n \in Pixels : \A c \in ds[j][n] :
      0 <= c.w /\ c.w <= Delta
\* the observations hold a partial weight, an end weight 0 and a full weight
C22_Witness ==
  /\ pc = "done" /\ mod_nf >= 2
  /\ \E n \in Pixels : \E c \in ds["o3vmr"][n] : 0 < c.w /\ c.w < Delta
  /\ \E n \in Pixels : \E c \in ds["o3vmr"][n] : c.w = 0


\* --------------------------------------- claims: the vertical resampling
\* the model level handed to interplevel at position k of a profile
LevelAt(prof, k) == prof[k].z
\* C23: the blended ozone and pressure profiles are handed to the
\* interpolation in reversed vertical order (last model level first), and when
\* the kernel is applied no resampled value is missing: where the
\* interpolation returned the missing value the resampled ozone is 0.
C23_ReversedAndNoMissing ==
  (pc \in {"kernel", "done"}) =>
    /\ \A n \in Pixels : \A k \in 1..Len(PresMid) :
         /\ LevelAt(interp_in[n].field3d, k) = Len(PresMid) - k
         /\ LevelAt(interp_in[n].vert, k) = Len(PresMid) - k
         /\ interp_in[n].vert[k].v
              = Blend(pressure_temp[n], PresMid[Len(PresMid) + 1 - k]) \div 100
    /\ \A i \in DOMAIN ozone_satp : \A n \in Pixels :
         /\ ~ozone_satp[i][n].nan
         /\ Interplevel(model_data.o3, obs_data.pressure[i + 1], n).nan
              => ozone_satp[i][n] = Val(0)
\* a covered pixel with a level inside its pressure column and a level
\* outside of it, next to a pixel no model step covers
C23_Witness ==
  /\ pc = "done"
  /\ \E n \in Pixels :
       /\ interp_in[n].vert[1].v < interp_in[n].vert[2].v
       /\ \E i \in DOMAIN ozone_satp :
            Interplevel(model_data.o3, obs_data.pressure[i + 1], n).nan
       /\ \E i \in DOMAIN ozone_satp : ozone_satp[i][n].v > 0
  /\ \E n \in Pixels : ~Covered(n)


\* --------------------------- claims: the boundary assignments and the sum
\* the contributions of an entry that carry a non-zero weight
NonZero(e) == {c \in e : c.w # 0}
\* what step fi writes into a private buffer of zeros
PrivateStep(fi) == BlendStep(Zeros, fi)
\* the private buffers of all steps merged by summation, at pixel n
MergedPrivate(n) == UNION {NonZero(PrivateStep(fi)[n]) : fi \in 0..(mod_nf - 1)}
\* C24: with uniformly spaced model times no step of the loop (the direct
\* assignments of the first and last step included) removes a non-zero
\* contribution an earlier step accumulated, and the final buffers equal the
\* per-step private zero buffers merged by summation.
C24_AssignmentsKeepSum ==
  /\ []((Bracketed /\ Uniform) =>
         \A j \in DOMAIN ds : \A n \in Pixels :
           NonZero(ds[j][n]) = MergedPrivate(n))
  /\ [][(pc = "loop" /\ mod_nf >= 2 /\ Uniform) =>
          \A j \in DOMAIN ds : \A n \in Pixels : NonZero(ds[j][n]) \subseteq ds'[j][n]]_vars
\* three uniform model times, an observation exactly on the last one (its
\* zero-weight contribution of the step before is overwritten) and one
\* strictly between two model times
C24_Witness ==
  /\ Bracketed /\ Uniform /\ mod_nf = 3
  /\ \E n \in Pixels : ObsTime(n) = ModelTime(mod_nf - 1)
  /\ \E n \in Pixels : \E c \in ds["o3vmr"][n] : 0 < c.w /\ c.w < Delta


\* ------------------------------------- claims: the accumulated weight
\* C25: with ascending, uniformly spaced model times, at every point of the
\* loop the total weight accumulated so far in every buffer lies in [0, 1]
\* for each observation index (numerators in 0..Delta).
C25_TotalWeightAtMostOne ==
  (pc = "loop" /\ apply_ak /\ mod_nf >= 2 /\ Uniform) =>
    \A n \in Pixels :
      /\ 0 <= SumW(ozone_temp[n]) /\ SumW(ozone_temp[n]) <= Delta
      /\ 0 <= SumW(pressure_temp[n]) /\ SumW(pressure_temp[n]) <= Delta
      /\ 0 <= SumW(sfc[n]) /\ SumW(sfc[n]) <= Delta


\* ------------------------------------ claims: what a step leaves alone
\* C26: processing model step f changes buffer entries only at the indices
\* of the observations selected at f; every other entry of the ozone,
\* pressure and surface-pressure buffers is left as it was (so a step with
\* an empty selection changes nothing).  Entries are compared by their
\* contributions of non-zero weight.
C26_OnlySelectedChange ==
  [][(pc = "loop" /\ apply_ak /\ mod_nf >= 2 /\ f < mod_nf /\ f' = f + 1) =>
       \A n \in Pixels :
         ~Within(f, n) =>
           /\ NonZero(ozone_temp'[n]) = NonZero(ozone_temp[n])
           /\ NonZero(pressure_temp'[n]) = NonZero(pressure_temp[n])
           /\ NonZero(sfc'[n]) = NonZero(sfc[n])]_vars


\* ------------------------- claims: the inline loop and the primitive
\* C27: the time loop written out in the kernel pairing computes what the
\* generic primitive computes: after every iteration, and so on return, the
\* ozone buffer and the mid-level pressure buffer equal entry by entry the
\* buffer space_and_time_pairing holds for a variable on the same inputs.
C27_InlineEqualsPrimitive ==
  (pc \in {"loop", "kernel", "done"} /\ apply_ak /\ mod_nf >= 2) =>
    \A n \in Pixels :
      /\ ozone_temp[n] = SpaceAndTimePairing(f)[n]
      /\ pressure_temp[n] = SpaceAndTimePairing(f)[n]
\* three model steps are done, with an observation before the first model
\* time and one strictly between two model times
C27_Witness ==
  /\ pc = "kernel" /\ mod_nf = 3 /\ f = 3 /\ obs_nx = 2
  /\ ObsTime(0) < ModelTime(0) /\ Covered(0)
  /\ \E c \in ozone_temp[1] : 0 < c.w /\ c.w < Delta


\* ------------------------------- claims: the order of the observations
\* the second call has run over every model step
Repeated == pc = "loop" /\ f = mod_nf /\ first_run # << >>
\* the index a sample of the first call has in the second call
NewIndex(old) == CHOOSE n \in Pixels : first_run.perm[n + 1] = old
\* an entry of the first call with its pixels renamed to the second call's
Renamed(e) == {[step |-> c.step, pix |-> NewIndex(c.pix), w |-> c.w] : c \in NonZero(e)}
\* buffer new of the second call is buffer old of the first call, permuted
Permuted(new, old) ==
  \A n \in Pixels : NonZero(new[n]) = Renamed(old[first_run.perm[n + 1]])
\* C28: permuting the observation samples permutes the entries of every
\* output buffer in the same way: the buffers of the generic primitive and
\* the ozone, pressure and surface-pressure buffers of the kernel pairing.
C28_OrderIndependent ==
  Repeated =>
    IF apply_ak
    THEN /\ Permuted(ozone_temp, first_run.ozone_temp)
         /\ Permuted(pressure_temp, first_run.pressure_temp)
         /\ Permuted(sfc, first_run.sfc)
    ELSE \A j \in pair_variables : Permuted(ds[j], first_run.ds[j])


\* ------------------------------------ claims: the stored paired dataset
\* the dataset pair_data stored for the omps_nm observation
StoredObj == paired[PairLabel("omps_nm", ModelLabels[1])].obj
\* C29: after pair_data has paired an omps_nm observation, every pixel whose
\* paired model column is not strictly positive (zero, not-a-number) is
\* missing in every data variable of the stored dataset, the observed column
\* included, and every pixel with a strictly positive column keeps its values.
C29_NonPositiveMasked ==
  (pc = "stored") =>
    \A n \in Pixels :
      IF Positive(out[n])
      THEN /\ StoredObj.o3vmr[n] = out[n]
           /\ StoredObj.ozone_column[n] = Val(ObsOzoneColumn[n])
      ELSE /\ StoredObj.o3vmr[n].nan
           /\ StoredObj.ozone_column[n].nan
\* a stored pair with a pixel of positive column, next to a pixel whose
\* column is zero or not-a-number
C29_Witness ==
  /\ pc = "stored" /\ obs_nx = 2
  /\ \E n \in Pixels : Positive(out[n]) /\ ~StoredObj.ozone_column[n].nan
  /\ \E n \in Pixels : ~Positive(out[n]) /\ StoredObj.ozone_column[n].nan


\* --------------------------------- claims: products no branch applies to
\* the iteration pair_data is about to run, as a log entry would name it
Current == [model |-> Mod.label, obs |-> ObsName]
\* C30: for a swath observation not labelled omps_nm and for a grid
\* observation not labelled omps_l3, the iteration of pair_data raises no
\* error, calls no strategy, stores no entry for the product and leaves the
\* entries of paired as they were.
C30_UnmatchedLabelSkipped ==
  /\ [](pc \in {"pd", "pd_done", "raised"} =>
         \A e \in Entries :
           Selected(e) = "none" =>
             /\ e.outcome = "ok" /\ e.strategies = {}
             /\ KeyOf(e) \notin DOMAIN paired)
  /\ [][(pc = "pd" /\ Selected(Current) = "none") =>
          (paired' = paired /\ error' = "none" /\ pc' # "raised")]_vars
\* a swath observation labelled omps_l3 was skipped after a pair was stored
C30_Witness ==
  /\ pc = "pd_done" /\ paired # << >>
  /\ \E k \in 2..Len(ran) :
       /\ Selected(ran[k]) = "none" /\ ran[k].obs = "omps_l3"
       /\ obs["omps_l3"].obs_type = "sat_swath_clm"
       /\ ran[k - 1].strategies # {}

====
